---------------------------- MODULE Spec2Model ----------------------------
(***************************************************************************)
(* A model of hci_agent_app.py: the upload handler index() with the PDF    *)
(* text extractor, the LLM adapter, the section splitter and the content   *)
(* formatter, and the report endpoint download_pdf().                      *)
(*                                                                         *)
(* Python strings are sequences of one-character strings.  A character     *)
(* outside ASCII is written by its code point: "U+2022" is the bullet and  *)
(* "U+26A0" the warning sign.                                              *)
(***************************************************************************)
EXTENDS Integers, Sequences, FiniteSets

VARIABLES
    pc,             \* position of the request being handled
    req,            \* the request and the behaviour of its collaborators
    tmp_files,      \* number of NamedTemporaryFile files left on disk
    extracted_text, \* index(): extracted_text
    pages_read,     \* number of page.extract_text() calls of the extraction
    calls,          \* outbound generate_content calls of the analyze_paper invocation
    analysis,       \* outcome of analyze_paper: returned value or raised error
    full_summary,   \* index(): full_summary (<<>> while summary_none)
    summary_none,   \* full_summary is None
    content,        \* index(): the local content of each loop iteration that sliced
    sections_data,  \* index(): sections_data
    response,       \* what the request ended with
    fmt_in,         \* argument of format_section_content
    fmt_once,       \* format_section_content(fmt_in)
    fmt_twice,      \* format_section_content(fmt_once)
    args,           \* download_pdf(): request.args, section name -> content
    title,          \* download_pdf(): title
    safe_title,     \* download_pdf(): safe_title
    report          \* download_pdf(): what has been written into the FPDF object

vars == <<pc, req, tmp_files, extracted_text, pages_read, calls, analysis,
          full_summary, summary_none, content, sections_data, response,
          fmt_in, fmt_once, fmt_twice, args, title, safe_title, report>>

(***************************************************************************)
(* Python str primitives                                                   *)
(***************************************************************************)

Min(S) == CHOOSE x \in S : \A y \in S : x <= y

NL == <<"\n">>

\* A character is a one-character string; a character outside printable
\* ASCII, "\n", "\t", "\r" and "\f" is written as its code point in four or
\* more hexadecimal digits, "U+00A0", "U+1F600".

\* The characters str.strip() removes: every c with c.isspace(), which are
\* U+0009..U+000D, U+001C..U+0020, U+0085, U+00A0, U+1680, U+2000..U+200A,
\* U+2028, U+2029, U+202F, U+205F and U+3000.
Whitespace ==
    {"\t", "\n", "U+000B", "\f", "\r", "U+001C", "U+001D", "U+001E", "U+001F", " ",
     "U+0085", "U+00A0", "U+1680", "U+2000", "U+2001", "U+2002", "U+2003", "U+2004",
     "U+2005", "U+2006", "U+2007", "U+2008", "U+2009", "U+200A", "U+2028", "U+2029",
     "U+202F", "U+205F", "U+3000"}

\* The code points above 127 of the characters with c.isalpha() (the Unicode
\* categories Lu, Ll, Lt, Lm and Lo), as inclusive ranges <<first, last>>.
LetterRanges ==
    <<<<170, 170>>, <<181, 181>>, <<186, 186>>, <<192, 214>>, <<216, 246>>, <<248, 705>>,
      <<710, 721>>, <<736, 740>>, <<748, 748>>, <<750, 750>>, <<880, 884>>, <<886, 887>>,
      <<890, 893>>, <<895, 895>>, <<902, 902>>, <<904, 906>>, <<908, 908>>, <<910, 929>>,
      <<931, 1013>>, <<1015, 1153>>, <<1162, 1327>>, <<1329, 1366>>, <<1369, 1369>>,
      <<1376, 1416>>, <<1488, 1514>>, <<1519, 1522>>, <<1568, 1610>>, <<1646, 1647>>,
      <<1649, 1747>>, <<1749, 1749>>, <<1765, 1766>>, <<1774, 1775>>, <<1786, 1788>>,
      <<1791, 1791>>, <<1808, 1808>>, <<1810, 1839>>, <<1869, 1957>>, <<1969, 1969>>,
      <<1994, 2026>>, <<2036, 2037>>, <<2042, 2042>>, <<2048, 2069>>, <<2074, 2074>>,
      <<2084, 2084>>, <<2088, 2088>>, <<2112, 2136>>, <<2144, 2154>>, <<2160, 2183>>,
      <<2185, 2190>>, <<2208, 2249>>, <<2308, 2361>>, <<2365, 2365>>, <<2384, 2384>>,
      <<2392, 2401>>, <<2417, 2432>>, <<2437, 2444>>, <<2447, 2448>>, <<2451, 2472>>,
      <<2474, 2480>>, <<2482, 2482>>, <<2486, 2489>>, <<2493, 2493>>, <<2510, 2510>>,
      <<2524, 2525>>, <<2527, 2529>>, <<2544, 2545>>, <<2556, 2556>>, <<2565, 2570>>,
      <<2575, 2576>>, <<2579, 2600>>, <<2602, 2608>>, <<2610, 2611>>, <<2613, 2614>>,
      <<2616, 2617>>, <<2649, 2652>>, <<2654, 2654>>, <<2674, 2676>>, <<2693, 2701>>,
      <<2703, 2705>>, <<2707, 2728>>, <<2730, 2736>>, <<2738, 2739>>, <<2741, 2745>>,
      <<2749, 2749>>, <<2768, 2768>>, <<2784, 2785>>, <<2809, 2809>>, <<2821, 2828>>,
      <<2831, 2832>>, <<2835, 2856>>, <<2858, 2864>>, <<2866, 2867>>, <<2869, 2873>>,
      <<2877, 2877>>, <<2908, 2909>>, <<2911, 2913>>, <<2929, 2929>>, <<2947, 2947>>,
      <<2949, 2954>>, <<2958, 2960>>, <<2962, 2965>>, <<2969, 2970>>, <<2972, 2972>>,
      <<2974, 2975>>, <<2979, 2980>>, <<2984, 2986>>, <<2990, 3001>>, <<3024, 3024>>,
      <<3077, 3084>>, <<3086, 3088>>, <<3090, 3112>>, <<3114, 3129>>, <<3133, 3133>>,
      <<3160, 3162>>, <<3165, 3165>>, <<3168, 3169>>, <<3200, 3200>>, <<3205, 3212>>,
      <<3214, 3216>>, <<3218, 3240>>, <<3242, 3251>>, <<3253, 3257>>, <<3261, 3261>>,
      <<3293, 3294>>, <<3296, 3297>>, <<3313, 3314>>, <<3332, 3340>>, <<3342, 3344>>,
      <<3346, 3386>>, <<3389, 3389>>, <<3406, 3406>>, <<3412, 3414>>, <<3423, 3425>>,
      <<3450, 3455>>, <<3461, 3478>>, <<3482, 3505>>, <<3507, 3515>>, <<3517, 3517>>,
      <<3520, 3526>>, <<3585, 3632>>, <<3634, 3635>>, <<3648, 3654>>, <<3713, 3714>>,
      <<3716, 3716>>, <<3718, 3722>>, <<3724, 3747>>, <<3749, 3749>>, <<3751, 3760>>,
      <<3762, 3763>>, <<3773, 3773>>, <<3776, 3780>>, <<3782, 3782>>, <<3804, 3807>>,
      <<3840, 3840>>, <<3904, 3911>>, <<3913, 3948>>, <<3976, 3980>>, <<4096, 4138>>,
      <<4159, 4159>>, <<4176, 4181>>, <<4186, 4189>>, <<4193, 4193>>, <<4197, 4198>>,
      <<4206, 4208>>, <<4213, 4225>>, <<4238, 4238>>, <<4256, 4293>>, <<4295, 4295>>,
      <<4301, 4301>>, <<4304, 4346>>, <<4348, 4680>>, <<4682, 4685>>, <<4688, 4694>>,
      <<4696, 4696>>, <<4698, 4701>>, <<4704, 4744>>, <<4746, 4749>>, <<4752, 4784>>,
      <<4786, 4789>>, <<4792, 4798>>, <<4800, 4800>>, <<4802, 4805>>, <<4808, 4822>>,
      <<4824, 4880>>, <<4882, 4885>>, <<4888, 4954>>, <<4992, 5007>>, <<5024, 5109>>,
      <<5112, 5117>>, <<5121, 5740>>, <<5743, 5759>>, <<5761, 5786>>, <<5792, 5866>>,
      <<5873, 5880>>, <<5888, 5905>>, <<5919, 5937>>, <<5952, 5969>>, <<5984, 5996>>,
      <<5998, 6000>>, <<6016, 6067>>, <<6103, 6103>>, <<6108, 6108>>, <<6176, 6264>>,
      <<6272, 6276>>, <<6279, 6312>>, <<6314, 6314>>, <<6320, 6389>>, <<6400, 6430>>,
      <<6480, 6509>>, <<6512, 6516>>, <<6528, 6571>>, <<6576, 6601>>, <<6656, 6678>>,
      <<6688, 6740>>, <<6823, 6823>>, <<6917, 6963>>, <<6981, 6988>>, <<7043, 7072>>,
      <<7086, 7087>>, <<7098, 7141>>, <<7168, 7203>>, <<7245, 7247>>, <<7258, 7293>>,
      <<7296, 7304>>, <<7312, 7354>>, <<7357, 7359>>, <<7401, 7404>>, <<7406, 7411>>,
      <<7413, 7414>>, <<7418, 7418>>, <<7424, 7615>>, <<7680, 7957>>, <<7960, 7965>>,
      <<7968, 8005>>, <<8008, 8013>>, <<8016, 8023>>, <<8025, 8025>>, <<8027, 8027>>,
      <<8029, 8029>>, <<8031, 8061>>, <<8064, 8116>>, <<8118, 8124>>, <<8126, 8126>>,
      <<8130, 8132>>, <<8134, 8140>>, <<8144, 8147>>, <<8150, 8155>>, <<8160, 8172>>,
      <<8178, 8180>>, <<8182, 8188>>, <<8305, 8305>>, <<8319, 8319>>, <<8336, 8348>>,
      <<8450, 8450>>, <<8455, 8455>>, <<8458, 8467>>, <<8469, 8469>>, <<8473, 8477>>,
      <<8484, 8484>>, <<8486, 8486>>, <<8488, 8488>>, <<8490, 8493>>, <<8495, 8505>>,
      <<8508, 8511>>, <<8517, 8521>>, <<8526, 8526>>, <<8579, 8580>>, <<11264, 11492>>,
      <<11499, 11502>>, <<11506, 11507>>, <<11520, 11557>>, <<11559, 11559>>,
      <<11565, 11565>>, <<11568, 11623>>, <<11631, 11631>>, <<11648, 11670>>,
      <<11680, 11686>>, <<11688, 11694>>, <<11696, 11702>>, <<11704, 11710>>,
      <<11712, 11718>>, <<11720, 11726>>, <<11728, 11734>>, <<11736, 11742>>,
      <<11823, 11823>>, <<12293, 12294>>, <<12337, 12341>>, <<12347, 12348>>,
      <<12353, 12438>>, <<12445, 12447>>, <<12449, 12538>>, <<12540, 12543>>,
      <<12549, 12591>>, <<12593, 12686>>, <<12704, 12735>>, <<12784, 12799>>,
      <<13312, 19903>>, <<19968, 42124>>, <<42192, 42237>>, <<42240, 42508>>,
      <<42512, 42527>>, <<42538, 42539>>, <<42560, 42606>>, <<42623, 42653>>,
      <<42656, 42725>>, <<42775, 42783>>, <<42786, 42888>>, <<42891, 42954>>,
      <<42960, 42961>>, <<42963, 42963>>, <<42965, 42969>>, <<42994, 43009>>,
      <<43011, 43013>>, <<43015, 43018>>, <<43020, 43042>>, <<43072, 43123>>,
      <<43138, 43187>>, <<43250, 43255>>, <<43259, 43259>>, <<43261, 43262>>,
      <<43274, 43301>>, <<43312, 43334>>, <<43360, 43388>>, <<43396, 43442>>,
      <<43471, 43471>>, <<43488, 43492>>, <<43494, 43503>>, <<43514, 43518>>,
      <<43520, 43560>>, <<43584, 43586>>, <<43588, 43595>>, <<43616, 43638>>,
      <<43642, 43642>>, <<43646, 43695>>, <<43697, 43697>>, <<43701, 43702>>,
      <<43705, 43709>>, <<43712, 43712>>, <<43714, 43714>>, <<43739, 43741>>,
      <<43744, 43754>>, <<43762, 43764>>, <<43777, 43782>>, <<43785, 43790>>,
      <<43793, 43798>>, <<43808, 43814>>, <<43816, 43822>>, <<43824, 43866>>,
      <<43868, 43881>>, <<43888, 44002>>, <<44032, 55203>>, <<55216, 55238>>,
      <<55243, 55291>>, <<63744, 64109>>, <<64112, 64217>>, <<64256, 64262>>,
      <<64275, 64279>>, <<64285, 64285>>, <<64287, 64296>>, <<64298, 64310>>,
      <<64312, 64316>>, <<64318, 64318>>, <<64320, 64321>>, <<64323, 64324>>,
      <<64326, 64433>>, <<64467, 64829>>, <<64848, 64911>>, <<64914, 64967>>,
      <<65008, 65019>>, <<65136, 65140>>, <<65142, 65276>>, <<65313, 65338>>,
      <<65345, 65370>>, <<65382, 65470>>, <<65474, 65479>>, <<65482, 65487>>,
      <<65490, 65495>>, <<65498, 65500>>, <<65536, 65547>>, <<65549, 65574>>,
      <<65576, 65594>>, <<65596, 65597>>, <<65599, 65613>>, <<65616, 65629>>,
      <<65664, 65786>>, <<66176, 66204>>, <<66208, 66256>>, <<66304, 66335>>,
      <<66349, 66368>>, <<66370, 66377>>, <<66384, 66421>>, <<66432, 66461>>,
      <<66464, 66499>>, <<66504, 66511>>, <<66560, 66717>>, <<66736, 66771>>,
      <<66776, 66811>>, <<66816, 66855>>, <<66864, 66915>>, <<66928, 66938>>,
      <<66940, 66954>>, <<66956, 66962>>, <<66964, 66965>>, <<66967, 66977>>,
      <<66979, 66993>>, <<66995, 67001>>, <<67003, 67004>>, <<67072, 67382>>,
      <<67392, 67413>>, <<67424, 67431>>, <<67456, 67461>>, <<67463, 67504>>,
      <<67506, 67514>>, <<67584, 67589>>, <<67592, 67592>>, <<67594, 67637>>,
      <<67639, 67640>>, <<67644, 67644>>, <<67647, 67669>>, <<67680, 67702>>,
      <<67712, 67742>>, <<67808, 67826>>, <<67828, 67829>>, <<67840, 67861>>,
      <<67872, 67897>>, <<67968, 68023>>, <<68030, 68031>>, <<68096, 68096>>,
      <<68112, 68115>>, <<68117, 68119>>, <<68121, 68149>>, <<68192, 68220>>,
      <<68224, 68252>>, <<68288, 68295>>, <<68297, 68324>>, <<68352, 68405>>,
      <<68416, 68437>>, <<68448, 68466>>, <<68480, 68497>>, <<68608, 68680>>,
      <<68736, 68786>>, <<68800, 68850>>, <<68864, 68899>>, <<69248, 69289>>,
      <<69296, 69297>>, <<69376, 69404>>, <<69415, 69415>>, <<69424, 69445>>,
      <<69488, 69505>>, <<69552, 69572>>, <<69600, 69622>>, <<69635, 69687>>,
      <<69745, 69746>>, <<69749, 69749>>, <<69763, 69807>>, <<69840, 69864>>,
      <<69891, 69926>>, <<69956, 69956>>, <<69959, 69959>>, <<69968, 70002>>,
      <<70006, 70006>>, <<70019, 70066>>, <<70081, 70084>>, <<70106, 70106>>,
      <<70108, 70108>>, <<70144, 70161>>, <<70163, 70187>>, <<70272, 70278>>,
      <<70280, 70280>>, <<70282, 70285>>, <<70287, 70301>>, <<70303, 70312>>,
      <<70320, 70366>>, <<70405, 70412>>, <<70415, 70416>>, <<70419, 70440>>,
      <<70442, 70448>>, <<70450, 70451>>, <<70453, 70457>>, <<70461, 70461>>,
      <<70480, 70480>>, <<70493, 70497>>, <<70656, 70708>>, <<70727, 70730>>,
      <<70751, 70753>>, <<70784, 70831>>, <<70852, 70853>>, <<70855, 70855>>,
      <<71040, 71086>>, <<71128, 71131>>, <<71168, 71215>>, <<71236, 71236>>,
      <<71296, 71338>>, <<71352, 71352>>, <<71424, 71450>>, <<71488, 71494>>,
      <<71680, 71723>>, <<71840, 71903>>, <<71935, 71942>>, <<71945, 71945>>,
      <<71948, 71955>>, <<71957, 71958>>, <<71960, 71983>>, <<71999, 71999>>,
      <<72001, 72001>>, <<72096, 72103>>, <<72106, 72144>>, <<72161, 72161>>,
      <<72163, 72163>>, <<72192, 72192>>, <<72203, 72242>>, <<72250, 72250>>,
      <<72272, 72272>>, <<72284, 72329>>, <<72349, 72349>>, <<72368, 72440>>,
      <<72704, 72712>>, <<72714, 72750>>, <<72768, 72768>>, <<72818, 72847>>,
      <<72960, 72966>>, <<72968, 72969>>, <<72971, 73008>>, <<73030, 73030>>,
      <<73056, 73061>>, <<73063, 73064>>, <<73066, 73097>>, <<73112, 73112>>,
      <<73440, 73458>>, <<73648, 73648>>, <<73728, 74649>>, <<74880, 75075>>,
      <<77712, 77808>>, <<77824, 78894>>, <<82944, 83526>>, <<92160, 92728>>,
      <<92736, 92766>>, <<92784, 92862>>, <<92880, 92909>>, <<92928, 92975>>,
      <<92992, 92995>>, <<93027, 93047>>, <<93053, 93071>>, <<93760, 93823>>,
      <<93952, 94026>>, <<94032, 94032>>, <<94099, 94111>>, <<94176, 94177>>,
      <<94179, 94179>>, <<94208, 100343>>, <<100352, 101589>>, <<101632, 101640>>,
      <<110576, 110579>>, <<110581, 110587>>, <<110589, 110590>>, <<110592, 110882>>,
      <<110928, 110930>>, <<110948, 110951>>, <<110960, 111355>>, <<113664, 113770>>,
      <<113776, 113788>>, <<113792, 113800>>, <<113808, 113817>>, <<119808, 119892>>,
      <<119894, 119964>>, <<119966, 119967>>, <<119970, 119970>>, <<119973, 119974>>,
      <<119977, 119980>>, <<119982, 119993>>, <<119995, 119995>>, <<119997, 120003>>,
      <<120005, 120069>>, <<120071, 120074>>, <<120077, 120084>>, <<120086, 120092>>,
      <<120094, 120121>>, <<120123, 120126>>, <<120128, 120132>>, <<120134, 120134>>,
      <<120138, 120144>>, <<120146, 120485>>, <<120488, 120512>>, <<120514, 120538>>,
      <<120540, 120570>>, <<120572, 120596>>, <<120598, 120628>>, <<120630, 120654>>,
      <<120656, 120686>>, <<120688, 120712>>, <<120714, 120744>>, <<120746, 120770>>,
      <<120772, 120779>>, <<122624, 122654>>, <<123136, 123180>>, <<123191, 123197>>,
      <<123214, 123214>>, <<123536, 123565>>, <<123584, 123627>>, <<124896, 124902>>,
      <<124904, 124907>>, <<124909, 124910>>, <<124912, 124926>>, <<124928, 125124>>,
      <<125184, 125251>>, <<125259, 125259>>, <<126464, 126467>>, <<126469, 126495>>,
      <<126497, 126498>>, <<126500, 126500>>, <<126503, 126503>>, <<126505, 126514>>,
      <<126516, 126519>>, <<126521, 126521>>, <<126523, 126523>>, <<126530, 126530>>,
      <<126535, 126535>>, <<126537, 126537>>, <<126539, 126539>>, <<126541, 126543>>,
      <<126545, 126546>>, <<126548, 126548>>, <<126551, 126551>>, <<126553, 126553>>,
      <<126555, 126555>>, <<126557, 126557>>, <<126559, 126559>>, <<126561, 126562>>,
      <<126564, 126564>>, <<126567, 126570>>, <<126572, 126578>>, <<126580, 126583>>,
      <<126585, 126588>>, <<126590, 126590>>, <<126592, 126601>>, <<126603, 126619>>,
      <<126625, 126627>>, <<126629, 126633>>, <<126635, 126651>>, <<131072, 173791>>,
      <<173824, 177976>>, <<177984, 178205>>, <<178208, 183969>>, <<183984, 191456>>,
      <<194560, 195101>>, <<196608, 201546>>>>

\* The code points above 127 of the characters with c.isalnum() and not
\* c.isalpha() (the Unicode categories Nd, Nl and No), as inclusive ranges.
NumberRanges ==
    <<<<178, 179>>, <<185, 185>>, <<188, 190>>, <<1632, 1641>>, <<1776, 1785>>,
      <<1984, 1993>>, <<2406, 2415>>, <<2534, 2543>>, <<2548, 2553>>, <<2662, 2671>>,
      <<2790, 2799>>, <<2918, 2927>>, <<2930, 2935>>, <<3046, 3058>>, <<3174, 3183>>,
      <<3192, 3198>>, <<3302, 3311>>, <<3416, 3422>>, <<3430, 3448>>, <<3558, 3567>>,
      <<3664, 3673>>, <<3792, 3801>>, <<3872, 3891>>, <<4160, 4169>>, <<4240, 4249>>,
      <<4969, 4988>>, <<5870, 5872>>, <<6112, 6121>>, <<6128, 6137>>, <<6160, 6169>>,
      <<6470, 6479>>, <<6608, 6618>>, <<6784, 6793>>, <<6800, 6809>>, <<6992, 7001>>,
      <<7088, 7097>>, <<7232, 7241>>, <<7248, 7257>>, <<8304, 8304>>, <<8308, 8313>>,
      <<8320, 8329>>, <<8528, 8578>>, <<8581, 8585>>, <<9312, 9371>>, <<9450, 9471>>,
      <<10102, 10131>>, <<11517, 11517>>, <<12295, 12295>>, <<12321, 12329>>,
      <<12344, 12346>>, <<12690, 12693>>, <<12832, 12841>>, <<12872, 12879>>,
      <<12881, 12895>>, <<12928, 12937>>, <<12977, 12991>>, <<42528, 42537>>,
      <<42726, 42735>>, <<43056, 43061>>, <<43216, 43225>>, <<43264, 43273>>,
      <<43472, 43481>>, <<43504, 43513>>, <<43600, 43609>>, <<44016, 44025>>,
      <<65296, 65305>>, <<65799, 65843>>, <<65856, 65912>>, <<65930, 65931>>,
      <<66273, 66299>>, <<66336, 66339>>, <<66369, 66369>>, <<66378, 66378>>,
      <<66513, 66517>>, <<66720, 66729>>, <<67672, 67679>>, <<67705, 67711>>,
      <<67751, 67759>>, <<67835, 67839>>, <<67862, 67867>>, <<68028, 68029>>,
      <<68032, 68047>>, <<68050, 68095>>, <<68160, 68168>>, <<68221, 68222>>,
      <<68253, 68255>>, <<68331, 68335>>, <<68440, 68447>>, <<68472, 68479>>,
      <<68521, 68527>>, <<68858, 68863>>, <<68912, 68921>>, <<69216, 69246>>,
      <<69405, 69414>>, <<69457, 69460>>, <<69573, 69579>>, <<69714, 69743>>,
      <<69872, 69881>>, <<69942, 69951>>, <<70096, 70105>>, <<70113, 70132>>,
      <<70384, 70393>>, <<70736, 70745>>, <<70864, 70873>>, <<71248, 71257>>,
      <<71360, 71369>>, <<71472, 71483>>, <<71904, 71922>>, <<72016, 72025>>,
      <<72784, 72812>>, <<73040, 73049>>, <<73120, 73129>>, <<73664, 73684>>,
      <<74752, 74862>>, <<92768, 92777>>, <<92864, 92873>>, <<93008, 93017>>,
      <<93019, 93025>>, <<93824, 93846>>, <<119520, 119539>>, <<119648, 119672>>,
      <<120782, 120831>>, <<123200, 123209>>, <<123632, 123641>>, <<125127, 125135>>,
      <<125264, 125273>>, <<126065, 126123>>, <<126125, 126127>>, <<126129, 126132>>,
      <<126209, 126253>>, <<126255, 126269>>, <<127232, 127244>>, <<130032, 130041>>>>

HexDigit(d) ==
    <<"0", "1", "2", "3", "4", "5", "6", "7", "8", "9", "A", "B", "C", "D", "E", "F">>[d + 1]

\* n in hexadecimal, at least width digits
RECURSIVE Hex(_, _)
Hex(n, width) ==
    IF width <= 1 /\ n < 16 THEN HexDigit(n)
    ELSE Hex(n \div 16, width - 1) \o HexDigit(n % 16)

\* the name of the character chr(n), n > 127
Char(n) == "U+" \o Hex(n, 4)

CodePoints(ranges) == UNION {ranges[i][1]..ranges[i][2] : i \in DOMAIN ranges}

\* The characters with c.isalnum() and not c.isalpha(): the ASCII digits and
\* the numbers outside ASCII.
Digits ==
    {"0", "1", "2", "3", "4", "5", "6", "7", "8", "9"}
    \cup {Char(n) : n \in CodePoints(NumberRanges)}

\* The characters with c.isalpha(): the ASCII letters and the letters
\* outside ASCII.
Letters ==
    {"A", "B", "C", "D", "E", "F", "G", "H", "I", "J", "K", "L", "M",
     "N", "O", "P", "Q", "R", "S", "T", "U", "V", "W", "X", "Y", "Z",
     "a", "b", "c", "d", "e", "f", "g", "h", "i", "j", "k", "l", "m",
     "n", "o", "p", "q", "r", "s", "t", "u", "v", "w", "x", "y", "z"}
    \cup {Char(n) : n \in CodePoints(LetterRanges)}

\* str(i) for 0 <= i <= 99
DigitChar(d) == <<"0", "1", "2", "3", "4", "5", "6", "7", "8", "9">>[d + 1]

Str(i) == IF i < 10 THEN <<DigitChar(i)>>
          ELSE <<DigitChar(i \div 10), DigitChar(i % 10)>>

\* s.startswith(prefix)
StartsWith(s, prefix) ==
    /\ Len(prefix) <= Len(s)
    /\ \A k \in 1..Len(prefix) : s[k] = prefix[k]

\* sub occurs in s at the 0-based offset p
OccursAt(s, sub, p) ==
    /\ p + Len(sub) <= Len(s)
    /\ \A k \in 1..Len(sub) : s[p + k] = sub[k]

\* s.find(sub): the 0-based offset of the first occurrence, or -1
Find(s, sub) ==
    LET hits == {p \in 0..(Len(s) - Len(sub)) : OccursAt(s, sub, p)}
    IN  IF hits = {} THEN -1 ELSE Min(hits)

\* s[a:b] with Python's handling of negative and out-of-range indices
Slice(s, a, b) ==
    LET n  == Len(s)
        a1 == IF a < 0 THEN (IF a + n < 0 THEN 0 ELSE a + n)
              ELSE (IF a > n THEN n ELSE a)
        b1 == IF b < 0 THEN (IF b + n < 0 THEN 0 ELSE b + n)
              ELSE (IF b > n THEN n ELSE b)
    IN  IF a1 >= b1 THEN <<>> ELSE SubSeq(s, a1 + 1, b1)

\* s.strip()
Strip(s) ==
    LET keep == {k \in 1..Len(s) : s[k] \notin Whitespace}
    IN  IF keep = {} THEN <<>>
        ELSE SubSeq(s, Min(keep), CHOOSE k \in keep : \A j \in keep : j <= k)

\* s.replace(ch, "")
Remove(s, ch) == SelectSeq(s, LAMBDA c : c # ch)

\* s.split("\n"): always at least one piece
RECURSIVE SplitLines(_)
SplitLines(s) ==
    LET p == Find(s, NL)
    IN  IF p = -1 THEN <<s>>
        ELSE <<SubSeq(s, 1, p)>> \o SplitLines(SubSeq(s, p + 2, Len(s)))

\* "\n".join(lines)
RECURSIVE JoinLines(_)
JoinLines(lines) ==
    IF lines = <<>> THEN <<>>
    ELSE IF Len(lines) = 1 THEN lines[1]
    ELSE lines[1] \o NL \o JoinLines(Tail(lines))

(***************************************************************************)
(* SECTIONS and the section splitter of index()                            *)
(***************************************************************************)

SECTIONS == <<
    <<"T", "L", ";", "D", "R">>,
    <<"A", "n", "a", "l", "o", "g", "y">>,
    <<"W", "o", "r", "k", "e", "d", " ", "E", "x", "a", "m", "p", "l", "e">>,
    <<"D", "a", "t", "a", "s", "e", "t">>,
    <<"M", "o", "d", "a", "l", "i", "t", "y">>,
    <<"P", "r", "o", "b", "l", "e", "m", " ", "S", "t", "a", "t", "e", "m", "e", "n", "t">>,
    <<"M", "e", "t", "h", "o", "d", "o", "l", "o", "g", "y">>,
    <<"K", "e", "y", " ", "F", "i", "n", "d", "i", "n", "g", "s">>,
    <<"R", "e", "s", "e", "a", "r", "c", "h", " ", "G", "a", "p">>,
    <<"F", "u", "t", "u", "r", "e", " ", "D", "i", "r", "e", "c", "t", "i", "o", "n", "s">>,
    <<"W", "h", "a", "t", " ", "S", "h", "o", "u", "l", "d", " ", "Y", "o", "u", " ", "R", "e", "a", "d", " ", "Y", "o", "u", "r", "s", "e", "l", "f", "?">> >>

\* the indices enumerate(SECTIONS) yields
SectionIdx == 0..(Len(SECTIONS) - 1)

\* the section at index idx
Section(idx) == SECTIONS[idx + 1]

SectionNames == {Section(i) : i \in SectionIdx}

\* "Section not found in analysis", after the warning sign
SectionNotFound ==
    <<"U+26A0", " ", "S", "e", "c", "t", "i", "o", "n", " ", "n", "o", "t", " ",
      "f", "o", "u", "n", "d", " ", "i", "n", " ", "a", "n", "a", "l", "y", "s", "i", "s">>

\* marker = f"{idx}) {section}"
Marker(idx) == Str(idx) \o <<")", " ">> \o Section(idx)

\* next_marker = f"{idx+1})"; only used while idx+1 < len(SECTIONS)
NextMarker(idx) == Str(idx + 1) \o <<")">>

HasNextMarker(idx) == idx + 1 < Len(SECTIONS)

(***************************************************************************)
(* format_section_content                                                  *)
(***************************************************************************)

\* any(line.startswith(str(i)+")") for i in range(12))
HeadingPrefix(line) == \E i \in 0..11 : StartsWith(line, Str(i) \o <<")">>)

BulletPrefix(line) == StartsWith(line, <<"U+2022">>) \/ StartsWith(line, <<"-">>)

\* the loop body leaving a line that already is a paragraph as it is
FormatLineKeepsParagraph(raw) ==
    LET line == Strip(raw)
    IN  IF BulletPrefix(line)
          THEN << <<"<", "l", "i", ">">> \o Strip(Slice(line, 1, Len(line)))
                  \o <<"<", "/", "l", "i", ">">> >>
        ELSE IF line # <<>> /\ HeadingPrefix(line)
          THEN << <<"<", "h", "4", ">">> \o line \o <<"<", "/", "h", "4", ">">> >>
        ELSE IF line # <<>> /\ StartsWith(line, <<"<">>)
          THEN <<line>>
        ELSE IF line # <<>>
          THEN << <<"<", "p", ">">> \o line \o <<"<", "/", "p", ">">> >>
        ELSE <<>>

\* one pass of the loop body over a line: the markup appended, <<>> for none
FormatLine(raw) ==
    LET line == Strip(raw)
    IN  IF BulletPrefix(line)
          THEN << <<"<", "l", "i", ">">> \o Strip(Slice(line, 1, Len(line)))
                  \o <<"<", "/", "l", "i", ">">> >>
        ELSE IF line # <<>> /\ HeadingPrefix(line)
          THEN << <<"<", "h", "4", ">">> \o line \o <<"<", "/", "h", "4", ">">> >>
        ELSE IF line # <<>>
          THEN << <<"<", "p", ">">> \o line \o <<"<", "/", "p", ">">> >>
        ELSE <<>>

RECURSIVE FormatLines(_)
FormatLines(lines) ==
    IF lines = <<>> THEN <<>>
    ELSE FormatLine(Head(lines)) \o FormatLines(Tail(lines))

format_section_content(c) ==
    JoinLines(FormatLines(SplitLines(Remove(c, "*"))))

(***************************************************************************)
(* The loop of index() over enumerate(SECTIONS)                            *)
(***************************************************************************)

\* start = full_summary.find(marker)
SectionStart(text, idx) == Find(text, Marker(idx))

\* end = full_summary.find(next_marker) if next_marker else len(full_summary)
SectionEnd(text, idx) ==
    IF HasNextMarker(idx) THEN Find(text, NextMarker(idx)) ELSE Len(text)

\* content = full_summary[start+len(marker):end].strip()
SectionContent(text, idx) ==
    Strip(Slice(text, SectionStart(text, idx) + Len(Marker(idx)), SectionEnd(text, idx)))

\* the value the iteration idx stores into sections_data
SectionValue(text, idx) ==
    IF SectionStart(text, idx) = -1 THEN SectionNotFound
    ELSE format_section_content(SectionContent(text, idx))

\* the loop body with the assignment of the not-found branch left out
AssignedKeysSkipMissing(text, idx) ==
    IF SectionStart(text, idx) = -1 THEN {} ELSE {Section(idx)}

\* the keys the iteration idx assigns (both branches of the loop body assign)
AssignedKeys(text, idx) == {Section(idx)}

\* sections_data once the loop has run over every index
SplitSections(text) ==
    LET keys == UNION {AssignedKeys(text, i) : i \in SectionIdx}
    IN  [name \in keys |->
            LET idx == CHOOSE i \in SectionIdx : Section(i) = name
            IN  SectionValue(text, idx)]

\* the content local of every iteration that reached the slice
SplitContent(text) ==
    [idx \in {i \in SectionIdx : SectionStart(text, i) # -1} |->
        SectionContent(text, idx)]


(***************************************************************************)
(* extract_pdf_text                                                        *)
(*                                                                         *)
(* A PDF is [readable, error, pages]: PdfReader(pdf_path) raises on an     *)
(* unreadable one; a page is [ok, text] and page.extract_text() raises on  *)
(* (or returns None for, which makes the + raise) a page that is not ok.   *)
(* error is str(e) of whatever is raised.                                  *)
(***************************************************************************)

\* the default of the max_pages parameter
MaxPages == 5

\* "No text extracted from PDF", after the warning sign
NoTextExtracted ==
    <<"U+26A0", " ", "N", "o", " ", "t", "e", "x", "t", " ", "e", "x", "t", "r", "a", "c", "t", "e", "d", " ",
      "f", "r", "o", "m", " ", "P", "D", "F">>

\* f"Failed to extract text from PDF: {str(e)}", after the warning sign
FailedToExtract(msg) ==
    <<"U+26A0", " ", "F", "a", "i", "l", "e", "d", " ", "t", "o", " ", "e", "x", "t", "r", "a", "c", "t", " ",
      "t", "e", "x", "t", " ", "f", "r", "o", "m", " ", "P", "D", "F", ":", " ">> \o msg

\* the for loop over enumerate(reader.pages): i the index, text the accumulator
RECURSIVE ReadPages(_, _, _, _)
ReadPages(pdf, max_pages, i, text) ==
    IF i >= Len(pdf.pages) \/ i >= max_pages
      THEN [raised |-> FALSE, msg |-> <<>>, text |-> text, pages_read |-> i]
    ELSE IF ~pdf.pages[i + 1].ok
      THEN [raised |-> TRUE, msg |-> pdf.error, text |-> text, pages_read |-> i + 1]
    ELSE ReadPages(pdf, max_pages, i + 1, text \o pdf.pages[i + 1].text \o NL)

\* the try block returning text whether or not it is blank
ExtractTryNoBlankCheck(pdf, max_pages) ==
    IF ~pdf.readable
      THEN [raised |-> TRUE, msg |-> pdf.error, text |-> <<>>, pages_read |-> 0]
    ELSE ReadPages(pdf, max_pages, 0, <<>>)

\* the try block
ExtractTry(pdf, max_pages) ==
    IF ~pdf.readable
      THEN [raised |-> TRUE, msg |-> pdf.error, text |-> <<>>, pages_read |-> 0]
    ELSE LET r == ReadPages(pdf, max_pages, 0, <<>>)
         IN  IF r.raised THEN r
             ELSE [r EXCEPT !.text = IF Strip(r.text) # <<>> THEN r.text
                                     ELSE NoTextExtracted]

\* the function with its except clause: what it returns, never raised
extract_pdf_text(pdf, max_pages) ==
    LET r == ExtractTry(pdf, max_pages)
    IN  IF r.raised
          THEN [raised |-> FALSE, msg |-> <<>>, text |-> FailedToExtract(r.msg),
                pages_read |-> r.pages_read]
        ELSE r

(***************************************************************************)
(* create_gemini_client and analyze_paper                                  *)
(*                                                                         *)
(* The collaborator is [key, client, call, error, text_none, text]: key is *)
(* whether GEMINI_API_KEY is set, client whether genai.Client(...) returns *)
(* or raises, call whether generate_content returns or raises, error the   *)
(* str(e) of what is raised, text (None when text_none) the response.text. *)
(***************************************************************************)

ApiKeyNotConfigured ==
    <<"A", "P", "I", " ", "k", "e", "y", " ", "n", "o", "t", " ", "c", "o", "n", "f", "i", "g", "u", "r", "e", "d", ".", " ",
      "P", "l", "e", "a", "s", "e", " ", "s", "e", "t", " ", "G", "E", "M", "I", "N", "I", "_", "A", "P", "I", "_", "K", "E", "Y", " ",
      "i", "n", " ", "y", "o", "u", "r", " ", ".", "e", "n", "v", " ", "f", "i", "l", "e", ".">>

ApiConnectionFailed(msg) ==
    <<"A", "P", "I", " ", "c", "o", "n", "n", "e", "c", "t", "i", "o", "n", " ", "f", "a", "i", "l", "e", "d", ".", " ",
      "P", "l", "e", "a", "s", "e", " ", "c", "h", "e", "c", "k", " ", "y", "o", "u", "r", " ", "A", "P", "I", " ", "k", "e", "y", " ",
      "a", "n", "d", " ", "n", "e", "t", "w", "o", "r", "k", " ", "c", "o", "n", "n", "e", "c", "t", "i", "o", "n", ":", " ">> \o msg

\* f"Analysis failed: {str(e)}"
AnalysisFailed(msg) ==
    <<"A", "n", "a", "l", "y", "s", "i", "s", " ", "f", "a", "i", "l", "e", "d", ":", " ">> \o msg

NotProvided == <<"N", "o", "t", " ", "p", "r", "o", "v", "i", "d", "e", "d">>

\* x or "Not provided"
OrNotProvided(x) == IF x = <<>> THEN NotProvided ELSE x

\* the client, or the ValueError raised
create_gemini_client(llm) ==
    IF ~llm.key THEN [raised |-> TRUE, msg |-> ApiKeyNotConfigured]
    ELSE IF llm.client = "error"
      THEN [raised |-> TRUE, msg |-> ApiConnectionFailed(llm.error)]
    ELSE [raised |-> FALSE, msg |-> <<>>]

NoPrompt == [title |-> <<>>, abstract |-> <<>>]

\* the try block of analyze_paper; prompt holds the title and abstract
\* substituted into HCI_PROMPT_TEMPLATE, calls counts generate_content calls
AnalyzeTry(paper_title, abstract, llm) ==
    LET client == create_gemini_client(llm)
        prompt == [title |-> OrNotProvided(paper_title),
                   abstract |-> OrNotProvided(abstract)]
    IN  IF client.raised
          THEN [invoked |-> TRUE, raised |-> TRUE, msg |-> client.msg, none |-> FALSE,
                value |-> <<>>, calls |-> 0, prompt |-> NoPrompt]
        ELSE IF llm.call = "error"
          THEN [invoked |-> TRUE, raised |-> TRUE, msg |-> llm.error, none |-> FALSE,
                value |-> <<>>, calls |-> 1, prompt |-> prompt]
        ELSE [invoked |-> TRUE, raised |-> FALSE, msg |-> <<>>, none |-> llm.text_none,
              value |-> llm.text, calls |-> 1, prompt |-> prompt]

\* analyze_paper calling generate_content a second time when the first call raises
analyze_paper_retry(paper_title, abstract, llm) ==
    LET r == AnalyzeTry(paper_title, abstract, llm)
    IN  IF r.raised
          THEN [r EXCEPT !.msg = AnalysisFailed(r.msg),
                         !.calls = IF r.calls = 1 THEN 2 ELSE 0]
        ELSE r

\* the function with its except clause: the value returned or the ValueError raised
analyze_paper(paper_title, abstract, llm) ==
    LET r == AnalyzeTry(paper_title, abstract, llm)
    IN  IF r.raised THEN [r EXCEPT !.msg = AnalysisFailed(r.msg)] ELSE r

(***************************************************************************)
(* Responses                                                               *)
(***************************************************************************)

NoResults == <<>>

\* nothing returned yet
NoResponse ==
    [kind |-> "none", template |-> "", error |-> <<>>, results |-> NoResults,
     download_name |-> <<>>, status |-> 0]

\* render_template("result.html", sections=SECTIONS, results=sections_data, ...)
ResultPage(results) ==
    [kind |-> "page", template |-> "result.html", error |-> <<>>, results |-> results,
     download_name |-> <<>>, status |-> 200]

\* render_template("index.html", error=...)
FormPage(error) ==
    [kind |-> "page", template |-> "index.html", error |-> error, results |-> NoResults,
     download_name |-> <<>>, status |-> 200]

\* an exception that leaves the view function and has no registered handler
Propagated(error) ==
    [kind |-> "exception", template |-> "", error |-> error, results |-> NoResults,
     download_name |-> <<>>, status |-> 500]

\* send_file(pdf_file, as_attachment=True, download_name=...)
Attachment(download_name) ==
    [kind |-> "attachment", template |-> "", error |-> <<>>, results |-> NoResults,
     download_name |-> download_name, status |-> 200]

\* "File too large. Maximum upload size is 20MB.", after the warning sign
FileTooLarge ==
    <<"U+26A0", " ", "F", "i", "l", "e", " ", "t", "o", "o", " ", "l", "a", "r", "g", "e", ".", " ",
      "M", "a", "x", "i", "m", "u", "m", " ", "u", "p", "l", "o", "a", "d", " ",
      "s", "i", "z", "e", " ", "i", "s", " ", "2", "0", "M", "B", ".">>

\* what the handler registered for 413 returns: the form page and the status
TooLargePage == [FormPage(FileTooLarge) EXCEPT !.status = 413]

\* f"Analysis failed: {str(e)}<br>Please check your API key or try a different paper."
\* after the warning sign
ProcessingError(msg) ==
    <<"U+26A0", " ", "A", "n", "a", "l", "y", "s", "i", "s", " ", "f", "a", "i", "l", "e", "d", ":", " ">>
    \o msg \o
    <<"<", "b", "r", ">", "P", "l", "e", "a", "s", "e", " ", "c", "h", "e", "c", "k", " ",
      "y", "o", "u", "r", " ", "A", "P", "I", " ", "k", "e", "y", " ", "o", "r", " ",
      "t", "r", "y", " ", "a", " ", "d", "i", "f", "f", "e", "r", "e", "n", "t", " ",
      "p", "a", "p", "e", "r", ".">>

\* index() without its except clause
OnExceptionUncaught(msg) == Propagated(msg)

\* the except clause of index(): every Exception of the try block ends in the form page
OnException(msg) == FormPage(ProcessingError(msg))

\* str(e) of the AttributeError of None.find(marker)
NoneHasNoFind ==
    <<"'", "N", "o", "n", "e", "T", "y", "p", "e", "'", " ", "o", "b", "j", "e", "c", "t", " ",
      "h", "a", "s", " ", "n", "o", " ", "a", "t", "t", "r", "i", "b", "u", "t", "e", " ",
      "'", "f", "i", "n", "d", "'">>

(***************************************************************************)
(* Request-scoped state before a request                                   *)
(***************************************************************************)

NoPdf == [readable |-> TRUE, error |-> <<>>, pages |-> <<>>]

NoLlm == [key |-> FALSE, client |-> "ok", call |-> "ok", error |-> <<>>,
          text_none |-> FALSE, text |-> <<>>]

\* too_large: the body is longer than MAX_CONTENT_LENGTH;
\* upload: how saving the upload goes; pdf and llm: the collaborators' behaviour,
\* filled in when they are called
NoRequest ==
    [method |-> "NONE", too_large |-> FALSE, has_file |-> FALSE, title |-> <<>>,
     upload |-> "unset", pdf |-> NoPdf, llm |-> NoLlm]

NoAnalysis ==
    [invoked |-> FALSE, raised |-> FALSE, msg |-> <<>>, none |-> FALSE,
     value |-> <<>>, calls |-> 0, prompt |-> NoPrompt]

(***************************************************************************)
(* index(): the split loop and the render that follows it                  *)
(***************************************************************************)

\* full_summary is a str: the loop runs over every section, the result page is rendered
SplitAndRender ==
    /\ pc = "analyzed"
    /\ ~summary_none
    /\ sections_data' = SplitSections(full_summary)
    /\ content' = SplitContent(full_summary)
    /\ response' = ResultPage(sections_data')
    /\ pc' = "done"
    /\ UNCHANGED <<req, tmp_files, extracted_text, pages_read, calls, analysis,
                   full_summary, summary_none, fmt_in, fmt_once, fmt_twice,
                   args, title, safe_title, report>>

\* full_summary is None: the first full_summary.find raises AttributeError
SplitRaises ==
    /\ pc = "analyzed"
    /\ summary_none
    /\ response' = OnException(NoneHasNoFind)
    /\ pc' = "done"
    /\ UNCHANGED <<req, tmp_files, extracted_text, pages_read, calls, analysis,
                   full_summary, summary_none, content, sections_data,
                   fmt_in, fmt_once, fmt_twice, args, title, safe_title, report>>

(***************************************************************************)
(* Model responses the splitter is run on                                  *)
(***************************************************************************)

\* the text written under heading k
Body(k) ==
    IF k = 0 THEN <<"S", "h", "o", "r", "t", ".">>
    ELSE IF k = 1 THEN <<"L", "i", "k", "e", " ", "X", ".">>
    ELSE <<"b">> \o Str(k) \o <<".">>

HeadingKinds == {"ok", "absent", "renamed", "dup"}

HeadingLine(k, kind) ==
    CASE kind = "ok"      -> Marker(k) \o NL
      [] kind = "absent"  -> <<>>
      [] kind = "renamed" -> Str(k) \o <<")", " ", "O", "t", "h", "e", "r">> \o NL
      [] kind = "dup"     -> Marker(k) \o NL \o Marker(k) \o NL

BodyKinds == {"plain", "ref", "padded", "blank", "bullet"}

\* "ref": the body cites the next heading's number in the running text
BodyText(k, kind) ==
    CASE kind = "plain"  -> Body(k)
      [] kind = "ref"    -> <<"s", "e", "e", " ">> \o Str(k + 1) \o <<")", " ">> \o Body(k)
      [] kind = "padded" -> <<" ", "\t">> \o Body(k) \o <<" ">>
      [] kind = "blank"  -> <<" ">>
      [] kind = "bullet" -> <<"U+2022", " ">> \o Body(k) \o NL \o <<"*", "*">> \o Body(k)

\* a response: one heading deviates (hk), one body deviates (bk), the blocks
\* sw and sw+1 are swapped (sw = -1: in order), a 12th heading may follow
Block(d, k) ==
    HeadingLine(k, IF k = d.hk THEN d.hkind ELSE "ok")
    \o BodyText(k, IF k = d.bk THEN d.bkind ELSE "plain") \o NL

BlockAt(d, pos) ==
    IF pos = d.sw THEN pos + 1 ELSE IF pos = d.sw + 1 /\ d.sw >= 0 THEN pos - 1 ELSE pos

RECURSIVE Blocks(_, _)
Blocks(d, pos) ==
    IF pos >= Len(SECTIONS) THEN <<>>
    ELSE Block(d, BlockAt(d, pos)) \o Blocks(d, pos + 1)

QuickReferences ==
    <<"1", "1", ")", " ", "Q", "u", "i", "c", "k", " ", "R", "e", "f", "e", "r", "e", "n", "c", "e", "s", "\n", "q", ".">>

ResponseText(d) == Blocks(d, 0) \o (IF d.tail THEN QuickReferences ELSE <<>>)

\* the sections whose body may deviate
BodyIdx == {0, 4, 9, 10}

Descriptors ==
    [hk : SectionIdx, hkind : HeadingKinds, bk : BodyIdx, bkind : BodyKinds,
     sw : {-1}, tail : BOOLEAN]
    \cup [hk : {0}, hkind : {"ok"}, bk : {0}, bkind : {"plain"},
          sw : 0..(Len(SECTIONS) - 2), tail : BOOLEAN]

\* the responses: the generated ones, the empty text, a lone heading
ResponseTexts ==
    {ResponseText(d) : d \in Descriptors} \cup {<<>>, Marker(0), Marker(10)}

(***************************************************************************)
(* Specification of the splitter: any response, then the loop and render   *)
(***************************************************************************)

InitSplit ==
    /\ pc = "analyzed"
    /\ req = NoRequest
    /\ tmp_files = 0
    /\ extracted_text = <<>>
    /\ pages_read = 0
    /\ calls = 0
    /\ analysis = NoAnalysis
    /\ \/ summary_none = FALSE /\ full_summary \in ResponseTexts
       \/ summary_none = TRUE /\ full_summary = <<>>
    /\ content = <<>>
    /\ sections_data = <<>>
    /\ response = NoResponse
    /\ fmt_in = <<>>
    /\ fmt_once = <<>>
    /\ fmt_twice = <<>>
    /\ args = <<>>
    /\ title = <<>>
    /\ safe_title = <<>>
    /\ report = <<>>

NextSplit == SplitAndRender \/ SplitRaises

SpecSplit == InitSplit /\ [][NextSplit]_vars


(***************************************************************************)
(* index(): the requests and the collaborators' behaviours                 *)
(***************************************************************************)

\* most temporary files left on disk before the model stops taking requests
MaxTmpFiles == 2

\* most pages of a modelled PDF
MaxPdfPages == 6

\* request.form.get("title", "")
FormTitles == {<<>>, <<" ">>, <<"U+00A0">>, <<"T">>, <<" ", "T", "\t">>}

Requests ==
    [method : {"GET"}, too_large : {FALSE}, has_file : {FALSE}, title : {<<>>},
     upload : {"unset"}, pdf : {NoPdf}, llm : {NoLlm}]
    \cup [method : {"POST"}, too_large : {FALSE}, has_file : BOOLEAN, title : FormTitles,
          upload : {"unset"}, pdf : {NoPdf}, llm : {NoLlm}]
    \cup [method : {"POST"}, too_large : {TRUE}, has_file : {TRUE}, title : {<<"T">>},
          upload : {"unset"}, pdf : {NoPdf}, llm : {NoLlm}]

\* tempfile.NamedTemporaryFile raises, pdf_file.save raises, or both return
Uploads == {"ok", "create_error", "save_error"}

UploadError == <<"N", "o", " ", "s", "p", "a", "c", "e">>

PdfError == <<"E", "O", "F", " ", "m", "a", "r", "k", "e", "r", " ", "n", "o", "t", " ", "f", "o", "u", "n", "d">>

PageText(kind) ==
    CASE kind = "text"  -> <<"a", "b">>
      [] kind = "blank" -> <<" ">>
      [] kind = "nbsp"  -> <<"U+00A0", "\f">>

\* n pages of one kind, page f (if any) not extractable
PdfWith(n, kind, f, err) ==
    [readable |-> TRUE, error |-> err,
     pages |-> [i \in 1..n |-> IF i = f THEN [ok |-> FALSE, text |-> <<>>]
                               ELSE [ok |-> TRUE, text |-> PageText(kind)]]]

Pdfs ==
    {PdfWith(n, kind, 0, <<>>) : n \in 0..MaxPdfPages, kind \in {"text", "blank", "nbsp"}}
    \cup {PdfWith(n, "text", f, err) :
            n \in 1..MaxPdfPages, f \in {1, 2, MaxPages, MaxPages + 1}, err \in {<<>>, PdfError}}
    \cup {[readable |-> FALSE, error |-> err, pages |-> <<>>] : err \in {<<>>, PdfError}}

LlmError == <<"5", "0", "3", " ", "U", "N", "A", "V", "A", "I", "L", "A", "B", "L", "E">>

InOrder == [hk |-> 0, hkind |-> "ok", bk |-> 0, bkind |-> "plain", sw |-> -1, tail |-> TRUE]

\* the response.text values the handler is run on
SummaryTexts ==
    {<<>>, ResponseText(InOrder), ResponseText([InOrder EXCEPT !.hk = 5, !.hkind = "absent"])}

Llms ==
    {NoLlm}
    \cup [key : {TRUE}, client : {"error"}, call : {"ok"}, error : {<<>>, LlmError},
          text_none : {FALSE}, text : {<<>>}]
    \cup [key : {TRUE}, client : {"ok"}, call : {"error"}, error : {<<>>, LlmError},
          text_none : {FALSE}, text : {<<>>}]
    \cup [key : {TRUE}, client : {"ok"}, call : {"ok"}, error : {<<>>},
          text_none : {TRUE}, text : {<<>>}]
    \cup [key : {TRUE}, client : {"ok"}, call : {"ok"}, error : {<<>>},
          text_none : {FALSE}, text : SummaryTexts]

PdfFileRequired ==
    <<"U+26A0", " ", "P", "D", "F", " ", "f", "i", "l", "e", " ", "i", "s", " ", "r", "e", "q", "u", "i", "r", "e", "d">>

PaperTitleRequired ==
    <<"U+26A0", " ", "P", "a", "p", "e", "r", " ", "t", "i", "t", "l", "e", " ", "i", "s", " ",
      "r", "e", "q", "u", "i", "r", "e", "d">>

(***************************************************************************)
(* index(): the handler, one action per step                               *)
(***************************************************************************)

\* a request arrives at "/"
Receive ==
    /\ pc = "idle"
    /\ tmp_files < MaxTmpFiles
    /\ req' \in Requests
    /\ pc' = "received"
    /\ UNCHANGED <<tmp_files, extracted_text, pages_read, calls, analysis,
                   full_summary, summary_none, content, sections_data, response,
                   fmt_in, fmt_once, fmt_twice, args, title, safe_title, report>>

\* request.method is GET: the form
IndexGet ==
    /\ pc = "received"
    /\ req.method = "GET"
    /\ response' = FormPage(<<>>)
    /\ pc' = "done"
    /\ UNCHANGED <<req, tmp_files, extracted_text, pages_read, calls, analysis,
                   full_summary, summary_none, content, sections_data,
                   fmt_in, fmt_once, fmt_twice, args, title, safe_title, report>>

\* A POST whose body is longer than MAX_CONTENT_LENGTH: reading request.files
\* raises RequestEntityTooLarge before the validations and outside the try
\* block, it leaves index(), and the handler registered for 413 answers.
request_entity_too_large ==
    /\ pc = "received"
    /\ req.method = "POST"
    /\ req.too_large
    /\ response' = TooLargePage
    /\ pc' = "done"
    /\ UNCHANGED <<req, tmp_files, extracted_text, pages_read, calls, analysis,
                   full_summary, summary_none, content, sections_data,
                   fmt_in, fmt_once, fmt_twice, args, title, safe_title, report>>

\* the two validations of a POST, before the try block
Validate ==
    /\ pc = "received"
    /\ req.method = "POST"
    /\ ~req.too_large
    /\ IF ~req.has_file
         THEN response' = FormPage(PdfFileRequired) /\ pc' = "done"
       ELSE IF Strip(req.title) = <<>>
         THEN response' = FormPage(PaperTitleRequired) /\ pc' = "done"
       ELSE response' = response /\ pc' = "validated"
    /\ UNCHANGED <<req, tmp_files, extracted_text, pages_read, calls, analysis,
                   full_summary, summary_none, content, sections_data,
                   fmt_in, fmt_once, fmt_twice, args, title, safe_title, report>>

\* with tempfile.NamedTemporaryFile(delete=False, suffix=".pdf") as tmp:
\*     pdf_file.save(tmp.name)
\* the file exists once NamedTemporaryFile has returned and nothing removes it
SaveUpload ==
    /\ pc = "validated"
    /\ \E u \in Uploads :
          /\ req' = [req EXCEPT !.upload = u]
          /\ tmp_files' = IF u = "create_error" THEN tmp_files ELSE tmp_files + 1
          /\ IF u = "ok"
               THEN response' = response /\ pc' = "saved"
             ELSE response' = OnException(UploadError) /\ pc' = "done"
    /\ UNCHANGED <<extracted_text, pages_read, calls, analysis,
                   full_summary, summary_none, content, sections_data,
                   fmt_in, fmt_once, fmt_twice, args, title, safe_title, report>>

\* extracted_text = extract_pdf_text(pdf_path)
ExtractText ==
    /\ pc = "saved"
    /\ \E pdf \in Pdfs :
          LET r == extract_pdf_text(pdf, MaxPages)
          IN  /\ req' = [req EXCEPT !.pdf = pdf]
              /\ pages_read' = r.pages_read
              /\ IF r.raised
                   THEN /\ response' = OnException(r.msg)
                        /\ extracted_text' = extracted_text
                        /\ pc' = "done"
                 ELSE /\ response' = response
                      /\ extracted_text' = r.text
                      /\ pc' = "extracted"
    /\ UNCHANGED <<tmp_files, calls, analysis,
                   full_summary, summary_none, content, sections_data,
                   fmt_in, fmt_once, fmt_twice, args, title, safe_title, report>>

\* full_summary = analyze_paper(title, authors, extracted_text, notes)
Analyze ==
    /\ pc = "extracted"
    /\ \E llm \in Llms :
          LET r == analyze_paper(Strip(req.title), extracted_text, llm)
          IN  /\ req' = [req EXCEPT !.llm = llm]
              /\ analysis' = r
              /\ calls' = r.calls
              /\ IF r.raised
                   THEN /\ response' = OnException(r.msg)
                        /\ UNCHANGED <<full_summary, summary_none>>
                        /\ pc' = "done"
                 ELSE /\ response' = response
                      /\ full_summary' = r.value
                      /\ summary_none' = r.none
                      /\ pc' = "analyzed"
    /\ UNCHANGED <<tmp_files, extracted_text, pages_read, content, sections_data,
                   fmt_in, fmt_once, fmt_twice, args, title, safe_title, report>>

\* the response is sent; the next request starts with fresh locals
Respond ==
    /\ pc = "done"
    /\ pc' = "idle"
    /\ req' = NoRequest
    /\ extracted_text' = <<>>
    /\ pages_read' = 0
    /\ calls' = 0
    /\ analysis' = NoAnalysis
    /\ full_summary' = <<>>
    /\ summary_none' = FALSE
    /\ content' = <<>>
    /\ sections_data' = <<>>
    /\ response' = NoResponse
    /\ UNCHANGED <<tmp_files, fmt_in, fmt_once, fmt_twice, args, title, safe_title, report>>

Init ==
    /\ pc = "idle"
    /\ req = NoRequest
    /\ tmp_files = 0
    /\ extracted_text = <<>>
    /\ pages_read = 0
    /\ calls = 0
    /\ analysis = NoAnalysis
    /\ full_summary = <<>>
    /\ summary_none = FALSE
    /\ content = <<>>
    /\ sections_data = <<>>
    /\ response = NoResponse
    /\ fmt_in = <<>>
    /\ fmt_once = <<>>
    /\ fmt_twice = <<>>
    /\ args = <<>>
    /\ title = <<>>
    /\ safe_title = <<>>
    /\ report = <<>>

Next ==
    \/ Receive
    \/ IndexGet
    \/ request_entity_too_large
    \/ Validate
    \/ SaveUpload
    \/ ExtractText
    \/ Analyze
    \/ SplitAndRender
    \/ SplitRaises
    \/ Respond

Spec == Init /\ [][Next]_vars

(***************************************************************************)
(* format_section_content applied once and again                           *)
(***************************************************************************)

\* longest text given to the formatter
MaxFmtLen == 3

FmtAlphabet == {"a", " ", "U+00A0", "\n", "*", "-", "1", ")", "U+2022"}

FmtInputs == UNION {[1..n -> FmtAlphabet] : n \in 0..MaxFmtLen}

FormatOnce ==
    /\ pc = "fmt_called"
    /\ fmt_once' = format_section_content(fmt_in)
    /\ pc' = "fmt_once"
    /\ UNCHANGED <<req, tmp_files, extracted_text, pages_read, calls, analysis,
                   full_summary, summary_none, content, sections_data, response,
                   fmt_in, fmt_twice, args, title, safe_title, report>>

FormatAgain ==
    /\ pc = "fmt_once"
    /\ fmt_twice' = format_section_content(fmt_once)
    /\ pc' = "fmt_twice"
    /\ UNCHANGED <<req, tmp_files, extracted_text, pages_read, calls, analysis,
                   full_summary, summary_none, content, sections_data, response,
                   fmt_in, fmt_once, args, title, safe_title, report>>

InitFormat ==
    /\ pc = "fmt_called"
    /\ req = NoRequest
    /\ tmp_files = 0
    /\ extracted_text = <<>>
    /\ pages_read = 0
    /\ calls = 0
    /\ analysis = NoAnalysis
    /\ full_summary = <<>>
    /\ summary_none = FALSE
    /\ content = <<>>
    /\ sections_data = <<>>
    /\ response = NoResponse
    /\ fmt_in \in FmtInputs
    /\ fmt_once = <<>>
    /\ fmt_twice = <<>>
    /\ args = <<>>
    /\ title = <<>>
    /\ safe_title = <<>>
    /\ report = <<>>

NextFormat == FormatOnce \/ FormatAgain

SpecFormat == InitFormat /\ [][NextFormat]_vars

(***************************************************************************)
(* download_pdf                                                            *)
(***************************************************************************)

\* the names bound at module level: the imports of lines 1-7 and the
\* module's own assignments and definitions
ModuleGlobals ==
    {"os", "logging", "Flask", "render_template", "request", "send_file", "jsonify",
     "genai", "PdfReader", "tempfile", "FPDF",
     "app", "logger", "SECTIONS", "create_gemini_client", "HCI_PROMPT_TEMPLATE",
     "extract_pdf_text", "analyze_paper", "format_section_content", "index",
     "download_pdf", "request_entity_too_large"}

\* str(e) of the NameError of a name that is not bound
NameError(name) ==
    IF name = "datetime"
      THEN <<"n", "a", "m", "e", " ", "'", "d", "a", "t", "e", "t", "i", "m", "e", "'", " ",
             "i", "s", " ", "n", "o", "t", " ", "d", "e", "f", "i", "n", "e", "d">>
    ELSE <<"n", "a", "m", "e", " ", "'", "r", "e", "'", " ",
           "i", "s", " ", "n", "o", "t", " ", "d", "e", "f", "i", "n", "e", "d">>

\* c.isalnum(): a letter or a number, ASCII or not
IsAlnum(c) == c \in Letters \/ c \in Digits

\* the sanitizer with the path separator among the characters kept
SafeTitleKeepsSlash(t) ==
    SelectSeq(t, LAMBDA c : IsAlnum(c) \/ c \in {" ", "_", "-", "/"})

\* "".join(c for c in title if c.isalnum() or c in " _-")
SafeTitle(t) == SelectSeq(t, LAMBDA c : IsAlnum(c) \/ c \in {" ", "_", "-"})

\* the 1-based index of the ">" ending the leftmost-shortest match of <[^<]+?>
\* that starts at p, or 0 when none starts there
TagEnd(s, p) ==
    IF s[p] # "<" THEN 0
    ELSE LET ends == {q \in (p + 2)..Len(s) :
                        s[q] = ">" /\ \A k \in (p + 1)..(q - 1) : s[k] # "<"}
         IN  IF ends = {} THEN 0 ELSE Min(ends)

RECURSIVE StripTagsFrom(_, _)
StripTagsFrom(s, p) ==
    IF p > Len(s) THEN <<>>
    ELSE IF TagEnd(s, p) = 0 THEN <<s[p]>> \o StripTagsFrom(s, p + 1)
    ELSE StripTagsFrom(s, TagEnd(s, p) + 1)

\* re.sub('<[^<]+?>', '', content)
StripTags(s) == StripTagsFrom(s, 1)

ReportTitle ==
    <<"H", "C", "I", " ", "P", "a", "p", "e", "r", " ", "A", "n", "a", "l", "y", "s", "i", "s", " ",
      "R", "e", "p", "o", "r", "t">>

GeneratedBy ==
    <<"G", "e", "n", "e", "r", "a", "t", "e", "d", " ", "b", "y", " ", "H", "C", "I", " ",
      "P", "a", "p", "e", "r", " ", "A", "n", "a", "l", "y", "z", "e", "r">>

\* datetime.now().strftime('%Y-%m-%d') of the day the report is made
Today == <<"2", "0", "2", "6", "-", "1", "0", "-", "2", "9">>

\* the cells of the loop over SECTIONS: the name, then the stripped content
RECURSIVE SectionCells(_, _)
SectionCells(a, idx) ==
    IF idx >= Len(SECTIONS) THEN <<>>
    ELSE <<Section(idx), StripTags(a[Section(idx)])>> \o SectionCells(a, idx + 1)

\* lines 218-238: the safe title, the page, the two headings, the first meta line
DownloadBegin ==
    /\ pc = "dl_called"
    /\ safe_title' = SafeTitle(title)
    /\ report' = <<ReportTitle, safe_title', GeneratedBy>>
    /\ pc' = "dl_meta"
    /\ UNCHANGED <<req, tmp_files, extracted_text, pages_read, calls, analysis,
                   full_summary, summary_none, content, sections_data, response,
                   fmt_in, fmt_once, fmt_twice, args, title>>

\* lines 239-257: the date line looks up datetime, the first pass of the loop
\* looks up re, then the report is written and sent.  Nothing in download_pdf
\* catches: an unbound name ends the request with the NameError.
DownloadFinish ==
    /\ pc = "dl_meta"
    /\ IF "datetime" \notin ModuleGlobals
         THEN /\ response' = Propagated(NameError("datetime"))
              /\ report' = report
       ELSE IF "re" \notin ModuleGlobals
         THEN /\ response' = Propagated(NameError("re"))
              /\ report' = report \o << <<"D", "a", "t", "e", ":", " ">> \o Today, Section(0) >>
       ELSE /\ response' = Attachment(safe_title \o <<"_", "a", "n", "a", "l", "y", "s", "i", "s",
                                                      ".", "p", "d", "f">>)
            /\ report' = report \o << <<"D", "a", "t", "e", ":", " ">> \o Today >>
                                \o SectionCells(args, 0)
    /\ pc' = "done"
    /\ UNCHANGED <<req, tmp_files, extracted_text, pages_read, calls, analysis,
                   full_summary, summary_none, content, sections_data,
                   fmt_in, fmt_once, fmt_twice, args, title, safe_title>>

\* longest generated title
MaxTitleLen == 3

TitleAlphabet ==
    {"a", "2", "U+00E9", "U+0416", "U+00B3", " ", "_", "-", "/", "\\", ":", "U+00A0"}

ExampleTitle ==
    <<"M", "y", " ", "P", "a", "p", "e", "r", ":", " ", "D", "r", "a", "f", "t", "/", "2">>

\* the titles download_pdf is called with
DownloadTitles ==
    UNION {[1..n -> TitleAlphabet] : n \in 0..MaxTitleLen} \cup {ExampleTitle}

\* request.args.get(section, ""): every section with the same content
ArgContents == {<<>>, <<"<", "p", ">", "a", "<", "/", "p", ">">>}

InitDownload ==
    /\ pc = "dl_called"
    /\ req = NoRequest
    /\ tmp_files = 0
    /\ extracted_text = <<>>
    /\ pages_read = 0
    /\ calls = 0
    /\ analysis = NoAnalysis
    /\ full_summary = <<>>
    /\ summary_none = FALSE
    /\ content = <<>>
    /\ sections_data = <<>>
    /\ response = NoResponse
    /\ fmt_in = <<>>
    /\ fmt_once = <<>>
    /\ fmt_twice = <<>>
    /\ \E c \in ArgContents : args = [name \in SectionNames |-> c]
    /\ title \in DownloadTitles
    /\ safe_title = <<>>
    /\ report = <<>>

NextDownload == DownloadBegin \/ DownloadFinish

SpecDownload == InitDownload /\ [][NextDownload]_vars

(***************************************************************************)
(* Properties of the splitter                                              *)
(***************************************************************************)

Occurrences(text, sub) ==
    Cardinality({p \in 0..(Len(text) - Len(sub)) : OccursAt(text, sub, p)})

\* every marker occurs once, the markers in increasing order
WellFormed(text) ==
    /\ \A i \in SectionIdx : Occurrences(text, Marker(i)) = 1
    /\ \A i \in SectionIdx :
          i + 1 < Len(SECTIONS) => Find(text, Marker(i)) < Find(text, Marker(i + 1))

\* the trimmed text between the end of marker i and the start of marker i+1
\* (the end of the text for the last section)
Between(text, i) ==
    LET from == Find(text, Marker(i)) + Len(Marker(i))
        to   == IF i + 1 < Len(SECTIONS) THEN Find(text, Marker(i + 1)) ELSE Len(text)
    IN  Strip(SubSeq(text, from + 1, to))

Split == pc = "done" /\ ~summary_none

\* C1: on a response with all 11 markers once and in order the split has 11
\* entries, none the not-found sentinel, and the content of section i is the
\* trimmed text between marker i and marker i+1.
C1_SplitRecoversSections ==
    (Split /\ WellFormed(full_summary)) =>
        /\ DOMAIN sections_data = SectionNames
        /\ Cardinality(DOMAIN sections_data) = 11
        /\ \A i \in SectionIdx :
              /\ sections_data[Section(i)] # SectionNotFound
              /\ i \in DOMAIN content
              /\ content[i] = Between(full_summary, i)

\* no "k)" of a heading number occurs outside the markers
NoStrayPrefix(text) ==
    \A k \in 1..(Len(SECTIONS) - 1) :
        \A p \in 0..(Len(text) - 2) :
            OccursAt(text, Str(k) \o <<")">>, p) =>
                \E i \in SectionIdx :
                    \E q \in {p + Len(Str(k)) - Len(Str(i))} :
                        q >= 0 /\ OccursAt(text, Marker(i), q)

\* marker i is absent, every other marker occurs once, in increasing order
OnlyMissing(text, i) ==
    /\ Occurrences(text, Marker(i)) = 0
    /\ \A j \in SectionIdx \ {i} : Occurrences(text, Marker(j)) = 1
    /\ \A j, k \in SectionIdx \ {i} :
          j < k => Find(text, Marker(j)) < Find(text, Marker(k))

\* C2: when marker i is absent only section i is the sentinel: every other
\* section with its successor's marker present is the slice between the two
\* markers, and the section before the missing one does not reach into the
\* section after it.  (Stated for responses without stray "k)" prefixes.)
C2_MissingMarkerIsLocal ==
    \A i \in SectionIdx :
        (Split /\ OnlyMissing(full_summary, i) /\ NoStrayPrefix(full_summary)) =>
            /\ sections_data[Section(i)] = SectionNotFound
            /\ \A j \in SectionIdx \ {i} :
                  /\ sections_data[Section(j)] # SectionNotFound
                  /\ j + 1 # i => content[j] = Between(full_summary, j)
                  /\ (j + 1 = i /\ i + 1 < Len(SECTIONS)) =>
                        Find(content[j], Marker(i + 1)) = -1

\* C7: the section map of the result page has one entry for each of the 11
\* section names and no other key; a section whose marker does not occur in
\* the response holds the not-found sentinel.
C7_SectionMapComplete ==
    (pc = "done" /\ response.template = "result.html") =>
        /\ DOMAIN response.results = SectionNames
        /\ Cardinality(DOMAIN response.results) = Len(SECTIONS)
        /\ Len(SECTIONS) = 11
        /\ \A i \in SectionIdx :
              Find(full_summary, Marker(i)) = -1 =>
                  response.results[Section(i)] = SectionNotFound

\* a rendered map for a response with a missing and a found heading
C7_Witness ==
    /\ pc = "done"
    /\ response.template = "result.html"
    /\ \E i \in SectionIdx :
          /\ Find(full_summary, Marker(i)) = -1
          /\ response.results[Section(i)] = SectionNotFound
    /\ \E k \in SectionIdx :
          /\ Find(full_summary, Marker(k)) # -1
          /\ response.results[Section(k)] # SectionNotFound

(***************************************************************************)
(* Properties of index()                                                   *)
(***************************************************************************)

\* the submission passes both validations
ValidPost ==
    req.method = "POST" /\ ~req.too_large /\ req.has_file /\ Strip(req.title) # <<>>

EndsWith(s, suffix) ==
    /\ Len(suffix) <= Len(s)
    /\ SubSeq(s, Len(s) - Len(suffix) + 1, Len(s)) = suffix

\* C3: a POST that passed validation ends with a rendered page whatever is
\* raised while saving, extracting, analysing or splitting: the form page
\* with the error message when something was raised, never an exception
\* leaving the handler.
C3_ExceptionsBecomeErrorPage ==
    (pc = "done" /\ ValidPost) =>
        /\ response.kind = "page"
        /\ (req.upload \in {"create_error", "save_error"}) =>
              /\ response.template = "index.html"
              /\ Find(response.error, UploadError) # -1
        /\ analysis.raised =>
              /\ response.template = "index.html"
              /\ Find(response.error, analysis.msg) # -1
              /\ StartsWith(response.error, <<"U+26A0", " ", "A", "n", "a", "l", "y", "s", "i", "s", " ",
                                              "f", "a", "i", "l", "e", "d", ":", " ">>)
        /\ (analysis.invoked /\ ~analysis.raised /\ summary_none) =>
              /\ response.template = "index.html"
              /\ response.error # <<>>
        /\ (analysis.invoked /\ ~analysis.raised /\ ~summary_none) =>
              response.template = "result.html"

\* the model call failed and the form page shows its message
C3_Witness ==
    /\ pc = "done"
    /\ ValidPost
    /\ req.llm.call = "error"
    /\ analysis.raised
    /\ response.template = "index.html"
    /\ Find(response.error, LlmError) # -1

\* C4: when a request ends, no temporary upload file is left on disk.
C4_TempFileDeleted == pc = "done" => tmp_files = 0

\* the message the failing step raised, as analyze_paper received it
Underlying ==
    IF ~req.llm.key THEN ApiKeyNotConfigured
    ELSE IF req.llm.client = "error"
      THEN <<"A", "P", "I", " ", "c", "o", "n", "n", "e", "c", "t", "i", "o", "n", " ",
             "f", "a", "i", "l", "e", "d">>
    ELSE req.llm.error

AdapterFails == ~req.llm.key \/ req.llm.client = "error" \/ req.llm.call = "error"

\* what C5 says of an invocation that made n outbound calls
SingleAttempt(n) ==
    /\ calls = n
    /\ AdapterFails =>
          /\ analysis.raised
          /\ StartsWith(analysis.msg, <<"A", "n", "a", "l", "y", "s", "i", "s", " ",
                                        "f", "a", "i", "l", "e", "d", ":", " ">>)
          /\ Find(analysis.msg, Underlying) # -1
          /\ EndsWith(analysis.msg, req.llm.error)
    /\ ~AdapterFails => ~analysis.raised

\* C5 as stated: no outbound call without an API key, exactly one otherwise,
\* and a missing key or a failed call raises an error carrying the message.
C5_OneCallUnlessNoKey ==
    analysis.invoked => SingleAttempt(IF req.llm.key THEN 1 ELSE 0)

\* C5 amended: no outbound call when the key is missing or the client cannot
\* be constructed, exactly one otherwise, never a second one; a missing key,
\* a failed construction or a failed call raises an error carrying the message.
C5_OneCallOnceClientExists ==
    analysis.invoked =>
        SingleAttempt(IF req.llm.key /\ req.llm.client = "ok" THEN 1 ELSE 0)

\* the one call was made, failed, and its message reached the caller
C5_Witness ==
    /\ analysis.invoked
    /\ req.llm.key
    /\ req.llm.client = "ok"
    /\ req.llm.call = "error"
    /\ req.llm.error = LlmError
    /\ calls = 1
    /\ analysis.raised

\* extract_pdf_text has returned
Extracted == pc \in {"extracted", "analyzed"} \/ analysis.invoked

\* the text of the first n pages, a newline after each
RECURSIVE LeadingText(_, _)
LeadingText(pages, n) ==
    IF n = 0 THEN <<>> ELSE LeadingText(pages, n - 1) \o pages[n].text \o NL

LeadingPages(pdf) == IF Len(pdf.pages) < MaxPages THEN Len(pdf.pages) ELSE MaxPages

\* C6: extract_pdf_text never raises and never returns a blank string: it
\* reads at most max_pages leading pages and returns their text or a
\* sentinel, and analyze_paper is then called with what it returned.
C6_ExtractionNeverAborts ==
    /\ (pc = "done" /\ ValidPost /\ req.upload = "ok") => analysis.invoked
    /\ Extracted =>
          /\ Strip(extracted_text) # <<>>
          /\ pages_read <= MaxPages
          /\ pages_read <= Len(req.pdf.pages)
          /\ ~req.pdf.readable =>
                StartsWith(extracted_text, <<"U+26A0", " ", "F", "a", "i", "l", "e", "d">>)
          /\ (req.pdf.readable /\ \A k \in 1..LeadingPages(req.pdf) : req.pdf.pages[k].ok) =>
                /\ pages_read = LeadingPages(req.pdf)
                /\ extracted_text =
                      IF Strip(LeadingText(req.pdf.pages, LeadingPages(req.pdf))) # <<>>
                        THEN LeadingText(req.pdf.pages, LeadingPages(req.pdf))
                      ELSE NoTextExtracted
          /\ (req.pdf.readable /\ \E k \in 1..LeadingPages(req.pdf) : ~req.pdf.pages[k].ok) =>
                StartsWith(extracted_text, <<"U+26A0", " ", "F", "a", "i", "l", "e", "d">>)
          /\ (analysis.invoked /\ calls = 1) => analysis.prompt.abstract = extracted_text

\* a PDF without pages: the sentinel went into the prompt of the one call
C6_Witness ==
    /\ analysis.invoked
    /\ calls = 1
    /\ req.pdf.readable
    /\ req.pdf.pages = <<>>
    /\ extracted_text = NoTextExtracted
    /\ analysis.prompt.abstract = NoTextExtracted

(***************************************************************************)
(* Properties of download_pdf                                              *)
(***************************************************************************)

Allowed(c) == c \in Letters \/ c \in Digits \/ c \in {" ", "_", "-"}

\* the index in t of the j-th character that is kept
KeptAt(t, j) ==
    CHOOSE k \in 1..Len(t) :
        Allowed(t[k]) /\ Cardinality({m \in 1..k : Allowed(t[m])}) = j

\* C8: safe_title holds exactly the characters of the title that are
\* alphanumeric, space, underscore or hyphen, in their order; no "/" or "\"
\* survives; "My Paper: Draft/2" becomes "My Paper Draft2".
C8_SafeTitleSanitized ==
    (pc \in {"dl_meta", "done"}) =>
        /\ \A k \in 1..Len(safe_title) : Allowed(safe_title[k])
        /\ \A k \in 1..Len(safe_title) : safe_title[k] \notin {"/", "\\"}
        /\ Len(safe_title) = Cardinality({k \in 1..Len(title) : Allowed(title[k])})
        /\ \A j \in 1..Len(safe_title) : safe_title[j] = title[KeptAt(title, j)]
        /\ title = ExampleTitle =>
              safe_title = <<"M", "y", " ", "P", "a", "p", "e", "r", " ",
                             "D", "r", "a", "f", "t", "2">>

C8_Witness ==
    /\ pc = "dl_meta"
    /\ title = ExampleTitle
    /\ safe_title = <<"M", "y", " ", "P", "a", "p", "e", "r", " ", "D", "r", "a", "f", "t", "2">>

\* C9: every download request runs to completion and returns the report,
\* with the title, the date and the 11 sections, as an attachment.
C9_DownloadCompletes ==
    pc = "done" =>
        /\ response.kind = "attachment"
        /\ Len(report) = 4 + 2 * Len(SECTIONS)
        /\ report[2] = safe_title

(***************************************************************************)
(* Properties of format_section_content                                    *)
(***************************************************************************)

\* no line has a bullet or a "<digit>)" prefix
PlainParagraphs(text) ==
    \A k \in 1..Len(SplitLines(text)) :
        /\ ~BulletPrefix(Strip(SplitLines(text)[k]))
        /\ ~HeadingPrefix(Strip(SplitLines(text)[k]))

\* C10 as stated: on plain paragraphs the formatter is idempotent.
C10_FormatIdempotent ==
    (pc = "fmt_twice" /\ PlainParagraphs(fmt_in)) => fmt_twice = fmt_once

InParagraph(line) == <<"<", "p", ">">> \o line \o <<"<", "/", "p", ">">>

\* C10 amended: on plain paragraphs the second application wraps every line
\* of the first result in one more paragraph. The formatter removes every
\* asterisk before it forms lines, so a line is blank when it holds nothing
\* but whitespace and asterisks. When some line is non-blank once the
\* asterisks are removed, the two results have the same lines in the same
\* order but differ; when the text holds only whitespace and asterisks, both
\* results are empty, and only then are they equal.
C10_FormatWrapsAgain ==
    (pc = "fmt_twice" /\ PlainParagraphs(fmt_in)) =>
        IF \A k \in 1..Len(fmt_in) : fmt_in[k] \in Whitespace \cup {"*"}
          THEN fmt_once = <<>> /\ fmt_twice = <<>>
        ELSE /\ fmt_once # <<>>
             /\ fmt_twice # fmt_once
             /\ Len(SplitLines(fmt_twice)) = Len(SplitLines(fmt_once))
             /\ \A k \in 1..Len(SplitLines(fmt_once)) :
                   SplitLines(fmt_twice)[k] = InParagraph(SplitLines(fmt_once)[k])

C10_Witness ==
    /\ pc = "fmt_twice"
    /\ fmt_in = <<"a", "\n", "a">>
    /\ fmt_once = <<"<", "p", ">", "a", "<", "/", "p", ">", "\n", "<", "p", ">", "a", "<", "/", "p", ">">>
    /\ fmt_twice # fmt_once

=============================================================================
